---- MODULE Spec2Model ----
(***************************************************************************)
(* Model of homeassistant/components/light/lifx.py: the LIFX registry      *)
(* (class LIFX), the per-bulb state (class LIFXLight) and the unit         *)
(* conversions between Home Assistant units and LIFX native units.         *)
(*                                                                         *)
(* The protocol client (liffylights) and the host (add_devices callback,   *)
(* update_ha_state) are outside the file; the model records the calls made *)
(* to them by the step that was taken last.                                *)
(*                                                                         *)
(* Python computes the colour conversions in binary floating point.  The   *)
(* operators below compute the same expressions in exact integer           *)
(* arithmetic (floor of the exact quotient); every intermediate value is   *)
(* kept below 2^31.  On the colour values enumerated in Colors and         *)
(* RgbOptions the two agree.                                               *)
(***************************************************************************)
EXTENDS Integers, Sequences, FiniteSets, TLC

\* ---------------------------------------------------------------------
\* Program constants (lifx.py:36-41)
\* ---------------------------------------------------------------------
SHORT_MAX == 65535

BYTE_MAX == 255

TEMP_MIN == 2500

TEMP_MAX == 9000

TEMP_MIN_HASS == 154

TEMP_MAX_HASS == 500

\* ---------------------------------------------------------------------
\* Bounds and input sets
\* ---------------------------------------------------------------------
\* largest transition option (seconds) passed to turn_on / turn_off
MaxTransition == 2

\* network addresses the protocol client reports
Addrs == {"10.0.0.1", "10.0.0.2"}

\* names a discovery event can carry
Names == {"lamp", "desk"}

\* raw power values a discovery or power event can carry
Powers == {0, 1, 65535}

\* native <<hue, sat, bri, kelvin>> values an event can carry
Colors == {<<0, 0, 65535, 6500>>, <<21845, 65535, 32768, 2500>>}

\* RGB options of turn_on
RgbOptions == {<<255, 0, 0>>, <<10, 200, 100>>}

\* brightness options of turn_on
BrightnessOptions == {0, 128}

\* RGB channel values of the round trip: the MaxEdge + 1 darkest, the
\* MaxEdge + 1 brightest, and every multiple of ChannelStep
MaxEdge == 2

ChannelStep == 5

RgbChannels ==
    {c \in 0..255 : c <= MaxEdge \/ c >= 255 - MaxEdge \/ c % ChannelStep = 0}

\* color_temp options of turn_on
ColorTempOptions == {300}

\* keyword names of turn_on / turn_off (homeassistant.components.light)
ATTR_TRANSITION == "transition"

ATTR_RGB_COLOR == "rgb_color"

ATTR_BRIGHTNESS == "brightness"

ATTR_COLOR_TEMP == "color_temp"

\* ---------------------------------------------------------------------
\* Arithmetic helpers
\* ---------------------------------------------------------------------
Max3(a, b, c) == IF a >= b /\ a >= c THEN a ELSE IF b >= c THEN b ELSE c

Min3(a, b, c) == IF a <= b /\ a <= c THEN a ELSE IF b <= c THEN b ELSE c

\* <<quotient, remainder>> of a * b divided by SHORT_MAX, for a, b in
\* 0..65535, without forming the product a * b
MulDivShort(a, b) ==
    LET a1 == a \div 256
        a0 == a % 256
        q1 == (a1 * b) \div SHORT_MAX
        r1 == (a1 * b) % SHORT_MAX
        rest == 256 * r1 + a0 * b
    IN  <<256 * q1 + rest \div SHORT_MAX, rest % SHORT_MAX>>

\* int(BYTE_MAX * v * (1.0 - s * f)) for v = V/65535, s = S/65535,
\* f = F/65535: floor of V * (65535^2 - S*F) / (257 * 65535^2)
ScaleChannel(V, S, F) ==
    LET sf == MulDivShort(S, F)
        vr == MulDivShort(V, sf[2])
        vm == MulDivShort(V, SHORT_MAX - sf[1])
        e  == IF vr[2] > 0 THEN 1 ELSE 0
        x  == vm[1] + ((vm[2] - vr[1] - e) \div SHORT_MAX)
    IN  x \div (BYTE_MAX + 2)

\* colorsys.hsv_to_rgb(hue/SHORT_MAX, sat/SHORT_MAX, bri/SHORT_MAX) with each
\* channel scaled by BYTE_MAX and truncated (set_color, lines 260-266)
HsvToRgb(hue, sat, bri) ==
    LET v == (BYTE_MAX * bri) \div SHORT_MAX
        i == (6 * hue) \div SHORT_MAX
        F == 6 * hue - SHORT_MAX * i
        p == ScaleChannel(bri, sat, SHORT_MAX)
        q == ScaleChannel(bri, sat, F)
        t == ScaleChannel(bri, sat, SHORT_MAX - F)
        k == i % 6
    IN  IF sat = 0 THEN <<v, v, v>>
        ELSE CASE k = 0 -> <<v, t, p>>
               [] k = 1 -> <<q, v, p>>
               [] k = 2 -> <<p, v, t>>
               [] k = 3 -> <<p, q, v>>
               [] k = 4 -> <<t, p, v>>
               [] k = 5 -> <<v, p, q>>

\* convert_rgb_to_hsv: colorsys.rgb_to_hsv of the channels divided by
\* BYTE_MAX, each output scaled by SHORT_MAX and truncated
convert_rgb_to_hsv(rgb) ==
    LET maxc == Max3(rgb[1], rgb[2], rgb[3])
        minc == Min3(rgb[1], rgb[2], rgb[3])
        rangec == maxc - minc
        num == IF rgb[1] = maxc THEN rgb[2] - rgb[3]
               ELSE IF rgb[2] = maxc THEN 2 * rangec + rgb[3] - rgb[1]
               ELSE 4 * rangec + rgb[1] - rgb[2]
        v == (SHORT_MAX * maxc) \div BYTE_MAX
    IN  IF minc = maxc THEN <<0, 0, v>>
        ELSE << (SHORT_MAX * (num % (6 * rangec))) \div (6 * rangec),
                (SHORT_MAX * rangec) \div maxc,
                v >>

\* ---------------------------------------------------------------------
\* The conversions with the rounding of binary floating point
\* ---------------------------------------------------------------------
\* The values int(x) can take when x is computed in floating point and its
\* exact value has floor q: q, and q - 1 when the exact value is the integer
\* q, which the computed value may fall just short of.  (An exact value that
\* is no integer is further from the next integer than the rounding error.)
FloatInt(q, exact) == IF exact /\ q > 0 THEN {q, q - 1} ELSE {q}

\* the exact value of which ScaleChannel is the floor is an integer
ScaleExact(V, S, F) ==
    LET sf == MulDivShort(S, F)
        vr == MulDivShort(V, sf[2])
        vm == MulDivShort(V, SHORT_MAX - sf[1])
    IN  /\ vr[2] = 0
        /\ (vm[2] - vr[1]) % SHORT_MAX = 0
        /\ (vm[1] + ((vm[2] - vr[1]) \div SHORT_MAX)) % (BYTE_MAX + 2) = 0

ScaleChannelFloat(V, S, F) == FloatInt(ScaleChannel(V, S, F), ScaleExact(V, S, F))

\* the RGB triples set_color can compute for hue, sat, bri; int(h * 6.0) may
\* select the sector below when h * 6.0 is an integer
HsvToRgbFloat(hue, sat, bri) ==
    LET vs == FloatInt((BYTE_MAX * bri) \div SHORT_MAX, (BYTE_MAX * bri) % SHORT_MAX = 0)
        i0 == (6 * hue) \div SHORT_MAX
        F0 == 6 * hue - SHORT_MAX * i0
        sectors == {<<i0, F0>>} \cup
                   (IF F0 = 0 /\ i0 > 0 THEN {<<i0 - 1, SHORT_MAX>>} ELSE {})
        Channels(k, F) ==
            { CASE k = 0 -> <<v, t, p>>
                [] k = 1 -> <<q, v, p>>
                [] k = 2 -> <<p, v, t>>
                [] k = 3 -> <<p, q, v>>
                [] k = 4 -> <<t, p, v>>
                [] k = 5 -> <<v, p, q>> :
                v \in vs,
                p \in ScaleChannelFloat(bri, sat, SHORT_MAX),
                q \in ScaleChannelFloat(bri, sat, F),
                t \in ScaleChannelFloat(bri, sat, SHORT_MAX - F) }
    IN  IF sat = 0 THEN {<<v, v, v>> : v \in vs}
        ELSE UNION {Channels(x[1] % 6, x[2]) : x \in sectors}

\* convert_rgb_to_hsv without the sector offsets 2.0 and 4.0 of the hue
convert_rgb_to_hsv_float_NoSector(rgb) ==
    LET maxc == Max3(rgb[1], rgb[2], rgb[3])
        minc == Min3(rgb[1], rgb[2], rgb[3])
        rangec == maxc - minc
        num == IF rgb[1] = maxc THEN rgb[2] - rgb[3]
               ELSE IF rgb[2] = maxc THEN rgb[3] - rgb[1]
               ELSE rgb[1] - rgb[2]
        hn == SHORT_MAX * (num % (6 * rangec))
        sn == SHORT_MAX * rangec
        vs == FloatInt((SHORT_MAX * maxc) \div BYTE_MAX, (SHORT_MAX * maxc) % BYTE_MAX = 0)
    IN  IF minc = maxc THEN {<<0, 0, v>> : v \in vs}
        ELSE { <<h, s, v>> :
                 h \in FloatInt(hn \div (6 * rangec), hn % (6 * rangec) = 0),
                 s \in FloatInt(sn \div maxc, sn % maxc = 0),
                 v \in vs }

\* the <<hue, sat, bri>> triples convert_rgb_to_hsv can return for rgb
convert_rgb_to_hsv_float(rgb) ==
    LET maxc == Max3(rgb[1], rgb[2], rgb[3])
        minc == Min3(rgb[1], rgb[2], rgb[3])
        rangec == maxc - minc
        num == IF rgb[1] = maxc THEN rgb[2] - rgb[3]
               ELSE IF rgb[2] = maxc THEN 2 * rangec + rgb[3] - rgb[1]
               ELSE 4 * rangec + rgb[1] - rgb[2]
        hn == SHORT_MAX * (num % (6 * rangec))
        sn == SHORT_MAX * rangec
        vs == FloatInt((SHORT_MAX * maxc) \div BYTE_MAX, (SHORT_MAX * maxc) % BYTE_MAX = 0)
    IN  IF minc = maxc THEN {<<0, 0, v>> : v \in vs}
        ELSE { <<h, s, v>> :
                 h \in FloatInt(hn \div (6 * rangec), hn % (6 * rangec) = 0),
                 s \in FloatInt(sn \div maxc, sn % maxc = 0),
                 v \in vs }

\* ---------------------------------------------------------------------
\* State
\* ---------------------------------------------------------------------
VARIABLES
    devices,     \* LIFX._devices: the list of LIFXLight objects
    ev,          \* the call delivered by the last step, with its arguments
    added,       \* add_devices_callback invocations made by the last step
    addCount,    \* per address: invocations of add_devices_callback so far
    signals,     \* update_ha_state calls made by the last step (bulb address)
    cmds,        \* liffylights.set_power / set_color calls made by the last step
    probes,      \* liffylights.probe calls made by the last step (target)
    discovered,  \* addresses for which an on_device event has been delivered
    reported,    \* per address: raw power of the last report (NoReport if none)
    calls,       \* per callback context: the on_device call it is executing
    clock        \* the scheduler's time, in seconds since setup_platform

vars == <<devices, ev, added, addCount, signals, cmds, probes, discovered, reported,
          calls, clock>>

\* what the handlers of lifx.py never touch: the callback contexts of the
\* protocol client and the scheduler's clock
env == <<calls, clock>>

\* Python's None as a probe target
None == "None"

\* callback contexts of the protocol client that can run on_device
Contexts == {"listener1", "listener2"}

\* a callback context that is executing no call
Idle == [pc |-> "idle"]

\* no power value has been reported for the address yet
NoReport == -1

\* ---------------------------------------------------------------------
\* class LIFXLight
\* ---------------------------------------------------------------------
set_name(bulb, name) == [bulb EXCEPT !.name = name]

set_power_FullOnly(bulb, power) == [bulb EXCEPT !.power = (power = SHORT_MAX)]

set_power(bulb, power) == [bulb EXCEPT !.power = (power # 0)]

\* set_color that stores the four values and keeps the old RGB triple
set_color_StaleRgb(bulb, hue, sat, bri, kel) ==
    [bulb EXCEPT !.hue = hue, !.sat = sat, !.bri = bri, !.kel = kel]

set_color(bulb, hue, sat, bri, kel) ==
    [bulb EXCEPT !.hue = hue, !.sat = sat, !.bri = bri, !.kel = kel,
                 !.rgb = HsvToRgb(hue, sat, bri)]

\* the bulbs set_color can leave, with the RGB triple computed in floating point
set_color_float(bulb, hue, sat, bri, kel) ==
    { [set_color(bulb, hue, sat, bri, kel) EXCEPT !.rgb = rgb] :
        rgb \in HsvToRgbFloat(hue, sat, bri) }

\* LIFXLight.__init__: _ip, then set_name, set_power, set_color
LIFXLight(ipaddr, name, power, hue, saturation, brightness, kelvin) ==
    LET obj == [ip |-> ipaddr, name |-> "", power |-> FALSE,
                hue |-> 0, sat |-> 0, bri |-> 0, kel |-> 0, rgb |-> <<0, 0, 0>>]
    IN  set_color(set_power(set_name(obj, name), power),
                  hue, saturation, brightness, kelvin)

\* property is_on: self._power != 0 (False == 0 in Python)
is_on(bulb) == bulb.power # FALSE

\* Python's int() of the quotient n / d (d > 0): truncation toward zero
TruncDiv(n, d) == IF n >= 0 THEN n \div d ELSE -((-n) \div d)

\* property brightness with BYTE_MAX as the divisor
brightness_prop_ByteMax(bulb) == TruncDiv(bulb.bri, BYTE_MAX)

\* property brightness: int(self._bri / (BYTE_MAX + 1))
brightness_prop(bulb) == TruncDiv(bulb.bri, BYTE_MAX + 1)

\* property color_temp with the host range running against the kelvin range
color_temp_prop_Inverted(bulb) ==
    TruncDiv(TEMP_MAX_HASS * (TEMP_MAX - TEMP_MIN)
                 - (TEMP_MAX_HASS - TEMP_MIN_HASS) * (bulb.kel - TEMP_MIN),
             TEMP_MAX - TEMP_MIN)

\* property color_temp: int(TEMP_MIN_HASS + (TEMP_MAX_HASS - TEMP_MIN_HASS) *
\* (self._kel - TEMP_MIN) / (TEMP_MAX - TEMP_MIN))
color_temp_prop(bulb) ==
    TruncDiv(TEMP_MIN_HASS * (TEMP_MAX - TEMP_MIN)
                 + (TEMP_MAX_HASS - TEMP_MIN_HASS) * (bulb.kel - TEMP_MIN),
             TEMP_MAX - TEMP_MIN)

\* fade computed by turn_on and turn_off
Fade(kwargs) ==
    IF ATTR_TRANSITION \in DOMAIN kwargs THEN kwargs[ATTR_TRANSITION] * 1000 ELSE 0

\* kelvin rounded to the nearest integer instead of truncated
KelvinOf_Rounded(color_temp) ==
    ((2 * (TEMP_MAX - TEMP_MIN) * (color_temp - TEMP_MIN_HASS)
        + (TEMP_MAX_HASS - TEMP_MIN_HASS))
        \div (2 * (TEMP_MAX_HASS - TEMP_MIN_HASS))) + TEMP_MIN

\* kelvin computed by turn_on from a color_temp option
KelvinOf(color_temp) ==
    (((TEMP_MAX - TEMP_MIN) * (color_temp - TEMP_MIN_HASS))
        \div (TEMP_MAX_HASS - TEMP_MIN_HASS)) + TEMP_MIN

\* turn_on with the colour command sent before the power command
turn_on_ColorFirst(bulb, kwargs) ==
    LET fade == Fade(kwargs)
        hsv == IF ATTR_RGB_COLOR \in DOMAIN kwargs
               THEN convert_rgb_to_hsv(kwargs[ATTR_RGB_COLOR])
               ELSE <<bulb.hue, bulb.sat, bulb.bri>>
        brightness == IF ATTR_BRIGHTNESS \in DOMAIN kwargs
                      THEN kwargs[ATTR_BRIGHTNESS] * (BYTE_MAX + 1)
                      ELSE bulb.bri
        kelvin == IF ATTR_COLOR_TEMP \in DOMAIN kwargs
                  THEN KelvinOf(kwargs[ATTR_COLOR_TEMP])
                  ELSE bulb.kel
    IN  << <<"set_color", bulb.ip, hsv[1], hsv[2], brightness, kelvin, fade>> >>
        \o (IF bulb.power = FALSE
            THEN << <<"set_power", bulb.ip, 65535, fade>> >>
            ELSE << >>)

\* turn_on that spreads the brightness option over the whole native range
turn_on_BriSpread(bulb, kwargs) ==
    LET fade == Fade(kwargs)
        hsv == IF ATTR_RGB_COLOR \in DOMAIN kwargs
               THEN convert_rgb_to_hsv(kwargs[ATTR_RGB_COLOR])
               ELSE <<bulb.hue, bulb.sat, bulb.bri>>
        brightness == IF ATTR_BRIGHTNESS \in DOMAIN kwargs
                      THEN kwargs[ATTR_BRIGHTNESS] * (BYTE_MAX + 2)
                      ELSE bulb.bri
        kelvin == IF ATTR_COLOR_TEMP \in DOMAIN kwargs
                  THEN KelvinOf(kwargs[ATTR_COLOR_TEMP])
                  ELSE bulb.kel
    IN  (IF bulb.power = FALSE
         THEN << <<"set_power", bulb.ip, 65535, fade>> >>
         ELSE << >>)
        \o << <<"set_color", bulb.ip, hsv[1], hsv[2], brightness, kelvin, fade>> >>

\* turn_on with the brightness option scaled by BYTE_MAX instead of BYTE_MAX + 1
turn_on_Bri255(bulb, kwargs) ==
    LET fade == Fade(kwargs)
        hsv == IF ATTR_RGB_COLOR \in DOMAIN kwargs
               THEN convert_rgb_to_hsv(kwargs[ATTR_RGB_COLOR])
               ELSE <<bulb.hue, bulb.sat, bulb.bri>>
        brightness == IF ATTR_BRIGHTNESS \in DOMAIN kwargs
                      THEN kwargs[ATTR_BRIGHTNESS] * BYTE_MAX
                      ELSE bulb.bri
        kelvin == IF ATTR_COLOR_TEMP \in DOMAIN kwargs
                  THEN KelvinOf(kwargs[ATTR_COLOR_TEMP])
                  ELSE bulb.kel
    IN  (IF bulb.power = FALSE
         THEN << <<"set_power", bulb.ip, 65535, fade>> >>
         ELSE << >>)
        \o << <<"set_color", bulb.ip, hsv[1], hsv[2], brightness, kelvin, fade>> >>

\* turn_on without the else branch of the brightness option: the brightness
\* of the converted RGB colour is kept when no brightness option is given
turn_on_RgbValue(bulb, kwargs) ==
    LET fade == Fade(kwargs)
        hsv == IF ATTR_RGB_COLOR \in DOMAIN kwargs
               THEN convert_rgb_to_hsv(kwargs[ATTR_RGB_COLOR])
               ELSE <<bulb.hue, bulb.sat, bulb.bri>>
        brightness == IF ATTR_BRIGHTNESS \in DOMAIN kwargs
                      THEN kwargs[ATTR_BRIGHTNESS] * (BYTE_MAX + 1)
                      ELSE hsv[3]
        kelvin == IF ATTR_COLOR_TEMP \in DOMAIN kwargs
                  THEN KelvinOf(kwargs[ATTR_COLOR_TEMP])
                  ELSE bulb.kel
    IN  (IF bulb.power = FALSE
         THEN << <<"set_power", bulb.ip, 65535, fade>> >>
         ELSE << >>)
        \o << <<"set_color", bulb.ip, hsv[1], hsv[2], brightness, kelvin, fade>> >>

\* the protocol calls of turn_on, in the order they are made
turn_on(bulb, kwargs) ==
    LET fade == Fade(kwargs)
        hsv == IF ATTR_RGB_COLOR \in DOMAIN kwargs
               THEN convert_rgb_to_hsv(kwargs[ATTR_RGB_COLOR])
               ELSE <<bulb.hue, bulb.sat, bulb.bri>>
        brightness == IF ATTR_BRIGHTNESS \in DOMAIN kwargs
                      THEN kwargs[ATTR_BRIGHTNESS] * (BYTE_MAX + 1)
                      ELSE bulb.bri
        kelvin == IF ATTR_COLOR_TEMP \in DOMAIN kwargs
                  THEN KelvinOf(kwargs[ATTR_COLOR_TEMP])
                  ELSE bulb.kel
    IN  (IF bulb.power = FALSE
         THEN << <<"set_power", bulb.ip, 65535, fade>> >>
         ELSE << >>)
        \o << <<"set_color", bulb.ip, hsv[1], hsv[2], brightness, kelvin, fade>> >>

\* turn_off that sends nothing to a bulb already stored as off
turn_off_SkipsWhenOff(bulb, kwargs) ==
    IF bulb.power = FALSE THEN << >>
    ELSE << <<"set_power", bulb.ip, 0, Fade(kwargs)>> >>

\* the protocol calls of turn_off
turn_off(bulb, kwargs) == << <<"set_power", bulb.ip, 0, Fade(kwargs)>> >>

\* ---------------------------------------------------------------------
\* class LIFX
\* ---------------------------------------------------------------------
\* find_bulb that never finds a device
find_bulb_NeverFound(devs, ipaddr) == 0

\* find_bulb that returns the loop variable: the last device on a miss
find_bulb_LoopVar(devs, ipaddr) ==
    IF \E i \in 1..Len(devs) : devs[i].ip = ipaddr
    THEN CHOOSE i \in 1..Len(devs) :
            /\ devs[i].ip = ipaddr
            /\ \A j \in 1..(i - 1) : devs[j].ip # ipaddr
    ELSE Len(devs)

\* index of the first device with the address, 0 for None
find_bulb(devs, ipaddr) ==
    IF \E i \in 1..Len(devs) : devs[i].ip = ipaddr
    THEN CHOOSE i \in 1..Len(devs) :
            /\ devs[i].ip = ipaddr
            /\ \A j \in 1..(i - 1) : devs[j].ip # ipaddr
    ELSE 0

\* keyword arguments: every subset of the options, with every value
Restrict(f, D) == [k \in D |-> f[k]]

TurnOnKwargs ==
    { Restrict(full, D) :
        full \in [transition : 1..MaxTransition, rgb_color : RgbOptions,
                  brightness : BrightnessOptions, color_temp : ColorTempOptions],
        D \in SUBSET {ATTR_TRANSITION, ATTR_RGB_COLOR, ATTR_BRIGHTNESS, ATTR_COLOR_TEMP} }

TurnOffKwargs ==
    { Restrict(full, D) : full \in [transition : 1..MaxTransition],
                          D \in SUBSET {ATTR_TRANSITION} }

Init ==
    /\ devices = << >>
    /\ ev = [op |-> "setup_platform"]
    /\ added = << >>
    /\ addCount = [a \in Addrs |-> 0]
    /\ signals = << >>
    /\ cmds = << >>
    /\ probes = <<None>>
    /\ discovered = {}
    /\ reported = [a \in Addrs |-> NoReport]
    /\ calls = [t \in Contexts |-> Idle]
    /\ clock = 0

\* on_device that hands the bulb to add_devices_callback on every event
OnDevice_AlwaysNotifies(ipaddr, name, power, hue, sat, bri, kel) ==
    LET bulb == find_bulb(devices, ipaddr)
        new == LIFXLight(ipaddr, name, power, hue, sat, bri, kel)
    IN  /\ ev' = [op |-> "on_device", ipaddr |-> ipaddr, name |-> name,
                  power |-> power, hue |-> hue, sat |-> sat, bri |-> bri, kel |-> kel]
        /\ discovered' = discovered \cup {ipaddr}
        /\ IF bulb = 0
           THEN /\ devices' = Append(devices, new)
                /\ added' = << <<new>> >>
                /\ reported' = [reported EXCEPT ![ipaddr] = power]
           ELSE UNCHANGED <<devices, reported>> /\ added' = << <<devices[bulb]>> >>
        /\ addCount' = [addCount EXCEPT ![ipaddr] = @ + 1]
        /\ signals' = << >>
        /\ cmds' = << >>
        /\ probes' = << >>

\* on_device that refreshes a known bulb from the event (power, colour, signal)
OnDevice_Refreshes(ipaddr, name, power, hue, sat, bri, kel) ==
    LET bulb == find_bulb(devices, ipaddr)
        new == LIFXLight(ipaddr, name, power, hue, sat, bri, kel)
    IN  /\ ev' = [op |-> "on_device", ipaddr |-> ipaddr, name |-> name,
                  power |-> power, hue |-> hue, sat |-> sat, bri |-> bri, kel |-> kel]
        /\ discovered' = discovered \cup {ipaddr}
        /\ IF bulb = 0
           THEN /\ devices' = Append(devices, new)
                /\ added' = << <<new>> >>
                /\ addCount' = [addCount EXCEPT ![ipaddr] = @ + 1]
                /\ signals' = << >>
           ELSE /\ devices' = [devices EXCEPT ![bulb] =
                                  set_color(set_power(@, power), hue, sat, bri, kel)]
                /\ added' = << >>
                /\ signals' = <<devices[bulb].ip>>
                /\ UNCHANGED addCount
        /\ reported' = [reported EXCEPT ![ipaddr] = power]
        /\ cmds' = << >>
        /\ probes' = << >>

\* on_device that calls set_name on a known bulb
OnDevice_Renames(ipaddr, name, power, hue, sat, bri, kel) ==
    LET bulb == find_bulb(devices, ipaddr)
        new == LIFXLight(ipaddr, name, power, hue, sat, bri, kel)
    IN  /\ ev' = [op |-> "on_device", ipaddr |-> ipaddr, name |-> name,
                  power |-> power, hue |-> hue, sat |-> sat, bri |-> bri, kel |-> kel]
        /\ discovered' = discovered \cup {ipaddr}
        /\ IF bulb = 0
           THEN /\ devices' = Append(devices, new)
                /\ added' = << <<new>> >>
                /\ addCount' = [addCount EXCEPT ![ipaddr] = @ + 1]
                /\ reported' = [reported EXCEPT ![ipaddr] = power]
           ELSE /\ devices' = [devices EXCEPT ![bulb] = set_name(@, name)]
                /\ added' = << >>
                /\ UNCHANGED <<addCount, reported>>
        /\ signals' = << >>
        /\ cmds' = << >>
        /\ probes' = << >>

OnDevice(ipaddr, name, power, hue, sat, bri, kel) ==
    LET bulb == find_bulb(devices, ipaddr)
        new == LIFXLight(ipaddr, name, power, hue, sat, bri, kel)
    IN  /\ ev' = [op |-> "on_device", ipaddr |-> ipaddr, name |-> name,
                  power |-> power, hue |-> hue, sat |-> sat, bri |-> bri, kel |-> kel]
        /\ discovered' = discovered \cup {ipaddr}
        /\ IF bulb = 0
           THEN /\ devices' = Append(devices, new)
                /\ added' = << <<new>> >>
                /\ addCount' = [addCount EXCEPT ![ipaddr] = @ + 1]
                /\ reported' = [reported EXCEPT ![ipaddr] = power]
           ELSE UNCHANGED <<devices, addCount, reported>> /\ added' = << >>
        /\ signals' = << >>
        /\ cmds' = << >>
        /\ probes' = << >>

OnColor(ipaddr, hue, sat, bri, kel) ==
    LET bulb == find_bulb(devices, ipaddr)
    IN  /\ ev' = [op |-> "on_color", ipaddr |-> ipaddr,
                  hue |-> hue, sat |-> sat, bri |-> bri, kel |-> kel]
        /\ IF bulb # 0
           THEN /\ devices' = [devices EXCEPT ![bulb] = set_color(@, hue, sat, bri, kel)]
                /\ signals' = <<devices[bulb].ip>>
           ELSE UNCHANGED devices /\ signals' = << >>
        /\ added' = << >>
        /\ cmds' = << >>
        /\ probes' = << >>
        /\ UNCHANGED <<addCount, discovered, reported>>

\* on_power that drops a bulb from the registry when it is reported off
OnPower_ForgetsOff(ipaddr, power) ==
    LET bulb == find_bulb(devices, ipaddr)
    IN  /\ ev' = [op |-> "on_power", ipaddr |-> ipaddr, power |-> power]
        /\ reported' = [reported EXCEPT ![ipaddr] = power]
        /\ IF bulb # 0
           THEN /\ devices' = IF power = 0
                              THEN SelectSeq(devices, LAMBDA d : d.ip # ipaddr)
                              ELSE [devices EXCEPT ![bulb] = set_power(@, power)]
                /\ signals' = <<devices[bulb].ip>>
           ELSE UNCHANGED devices /\ signals' = << >>
        /\ added' = << >>
        /\ cmds' = << >>
        /\ probes' = << >>
        /\ UNCHANGED <<addCount, discovered>>

OnPower(ipaddr, power) ==
    LET bulb == find_bulb(devices, ipaddr)
    IN  /\ ev' = [op |-> "on_power", ipaddr |-> ipaddr, power |-> power]
        /\ reported' = [reported EXCEPT ![ipaddr] = power]
        /\ IF bulb # 0
           THEN /\ devices' = [devices EXCEPT ![bulb] = set_power(@, power)]
                /\ signals' = <<devices[bulb].ip>>
           ELSE UNCHANGED devices /\ signals' = << >>
        /\ added' = << >>
        /\ cmds' = << >>
        /\ probes' = << >>
        /\ UNCHANGED <<addCount, discovered>>

\* poll that probes the first address instead of broadcasting
Poll_Targeted ==
    /\ ev' = [op |-> "poll"]
    /\ probes' = <<"10.0.0.1">>
    /\ added' = << >>
    /\ signals' = << >>
    /\ cmds' = << >>
    /\ UNCHANGED <<devices, addCount, discovered, reported>>

\* LIFX.poll -> LIFX.probe() -> liffylights.probe(None)
Poll ==
    /\ ev' = [op |-> "poll"]
    /\ probes' = <<None>>
    /\ added' = << >>
    /\ signals' = << >>
    /\ cmds' = << >>
    /\ UNCHANGED <<devices, addCount, discovered, reported>>

\* the host calls turn_on on an entity it was handed by add_devices_callback
TurnOn(i, kwargs) ==
    /\ i \in 1..Len(devices)
    /\ ev' = [op |-> "turn_on", bulb |-> i, ipaddr |-> devices[i].ip, kwargs |-> kwargs]
    /\ cmds' = turn_on(devices[i], kwargs)
    /\ added' = << >>
    /\ signals' = << >>
    /\ probes' = << >>
    /\ UNCHANGED <<devices, addCount, discovered, reported>>

\* turn_off that flips the stored power flag without waiting for on_power
TurnOff_Optimistic(i, kwargs) ==
    /\ i \in 1..Len(devices)
    /\ ev' = [op |-> "turn_off", bulb |-> i, ipaddr |-> devices[i].ip, kwargs |-> kwargs]
    /\ cmds' = turn_off(devices[i], kwargs)
    /\ devices' = [devices EXCEPT ![i] = set_power(@, 0)]
    /\ added' = << >>
    /\ signals' = << >>
    /\ probes' = << >>
    /\ UNCHANGED <<addCount, discovered, reported>>

TurnOff(i, kwargs) ==
    /\ i \in 1..Len(devices)
    /\ ev' = [op |-> "turn_off", bulb |-> i, ipaddr |-> devices[i].ip, kwargs |-> kwargs]
    /\ cmds' = turn_off(devices[i], kwargs)
    /\ added' = << >>
    /\ signals' = << >>
    /\ probes' = << >>
    /\ UNCHANGED <<devices, addCount, discovered, reported>>

\* the host reads the brightness property of an entity
ReadBrightness(i) ==
    /\ i \in 1..Len(devices)
    /\ ev' = [op |-> "brightness", bulb |-> i, ipaddr |-> devices[i].ip,
              value |-> brightness_prop(devices[i])]
    /\ added' = << >>
    /\ signals' = << >>
    /\ cmds' = << >>
    /\ probes' = << >>
    /\ UNCHANGED <<devices, addCount, discovered, reported>>

\* the host reads the color_temp property of an entity
ReadColorTemp(i) ==
    /\ i \in 1..Len(devices)
    /\ ev' = [op |-> "color_temp", bulb |-> i, ipaddr |-> devices[i].ip,
              value |-> color_temp_prop(devices[i])]
    /\ added' = << >>
    /\ signals' = << >>
    /\ cmds' = << >>
    /\ probes' = << >>
    /\ UNCHANGED <<devices, addCount, discovered, reported>>

\* the result of convert_rgb_to_hsv is fed to set_color of an entity
FeedSetColor(i) ==
    /\ i \in 1..Len(devices)
    /\ ev.op = "convert_rgb_to_hsv"
    /\ \E new \in set_color_float(devices[i], ev.value[1], ev.value[2], ev.value[3],
                                  devices[i].kel) :
          devices' = [devices EXCEPT ![i] = new]
    /\ ev' = [op |-> "set_color", bulb |-> i, ipaddr |-> devices[i].ip,
              rgb |-> ev.rgb, hsv |-> ev.value]
    /\ added' = << >>
    /\ signals' = << >>
    /\ cmds' = << >>
    /\ probes' = << >>
    /\ UNCHANGED <<addCount, discovered, reported>>

\* serial delivery: every callback and command runs to completion
Next ==
    \/ \E a \in Addrs, n \in Names, p \in Powers, c \in Colors :
          OnDevice(a, n, p, c[1], c[2], c[3], c[4]) /\ UNCHANGED env
    \/ \E a \in Addrs, c \in Colors :
          OnColor(a, c[1], c[2], c[3], c[4]) /\ UNCHANGED env
    \/ \E a \in Addrs, p \in Powers : OnPower(a, p) /\ UNCHANGED env
    \/ Poll /\ UNCHANGED env
    \/ \E i \in 1..Len(devices), kw \in TurnOnKwargs : TurnOn(i, kw) /\ UNCHANGED env
    \/ \E i \in 1..Len(devices), kw \in TurnOffKwargs : TurnOff(i, kw) /\ UNCHANGED env

Spec == Init /\ [][Next]_vars

\* ---------------------------------------------------------------------
\* Properties
\* ---------------------------------------------------------------------
\* a bulb with the address is in the registry
Registered(ipaddr) == \E i \in 1..Len(devices) : devices[i].ip = ipaddr

\* the step delivered an on_device event for an address already registered
Rediscovery == ev'.op = "on_device" /\ Registered(ev'.ipaddr)

\* the set_color call made by the step
ColorCmd == cmds'[Len(cmds')]

\* C1: the registry holds at most one bulb per network address: no two
\* registered bulbs have the same ipaddr.
C1_OneBulbPerAddress ==
    \A i, j \in 1..Len(devices) : i # j => devices[i].ip # devices[j].ip

\* an address was discovered again while both addresses were registered
C1_Witness ==
    /\ Len(devices) = 2
    /\ ev.op = "on_device"
    /\ added = << >>

\* C2: add_devices_callback is invoked exactly once per address: at the
\* first on_device for the address, with a list holding exactly the new bulb,
\* whose fields are the event's values (power as a boolean); no other step
\* invokes it.
C2_AddedOncePerAddress ==
    /\ [](\A a \in Addrs : addCount[a] = IF a \in discovered THEN 1 ELSE 0)
    /\ [][ /\ (ev'.op = "on_device" /\ ev'.ipaddr \notin discovered) =>
                /\ Len(added') = 1
                /\ Len(added'[1]) = 1
                /\ added'[1][1] = devices'[Len(devices')]
                /\ added'[1][1].ip = ev'.ipaddr
                /\ added'[1][1].name = ev'.name
                /\ added'[1][1].power = (ev'.power # 0)
                /\ added'[1][1].hue = ev'.hue
                /\ added'[1][1].sat = ev'.sat
                /\ added'[1][1].bri = ev'.bri
                /\ added'[1][1].kel = ev'.kel
           /\ ~(ev'.op = "on_device" /\ ev'.ipaddr \notin discovered) =>
                /\ added' = << >>
                /\ addCount' = addCount ]_vars

\* both addresses were announced, the second one more than once, and a
\* command was issued afterwards
C2_Witness ==
    /\ discovered = Addrs
    /\ ev.op = "turn_on"
    /\ \A a \in Addrs : addCount[a] = 1

\* C3: an on_device event for a registered address changes nothing: the
\* registry and every field of every bulb stay, whatever the event carries,
\* and neither add_devices_callback nor update_ha_state is called.
C3_RediscoveryIsNoOp ==
    [][ Rediscovery =>
            /\ devices' = devices
            /\ addCount' = addCount
            /\ added' = << >>
            /\ signals' = << >> ]_vars

\* a registered bulb was announced again with another name, power and colour
C3_Witness ==
    /\ ev.op = "on_device"
    /\ added = << >>
    /\ \E i \in 1..Len(devices) :
          /\ devices[i].ip = ev.ipaddr
          /\ devices[i].name # ev.name
          /\ is_on(devices[i]) # (ev.power # 0)
          /\ devices[i].hue # ev.hue
          /\ devices[i].bri # ev.bri

\* C4 as claimed: an on_device event for a registered address that carries a
\* different name sets the bulb's name to the reported one and changes no
\* other field of the bulb.
C4_RediscoveryRenames ==
    [][ Rediscovery =>
            \A i \in 1..Len(devices) :
                (devices[i].ip = ev'.ipaddr /\ devices[i].name # ev'.name) =>
                    devices'[i] = [devices[i] EXCEPT !.name = ev'.name] ]_vars

\* C4 as the code has it: an on_device event for a registered address that
\* carries a different name leaves the bulb's name, and every other field of
\* the bulb, as it was.
C4_RediscoveryKeepsName ==
    [][ Rediscovery =>
            \A i \in 1..Len(devices) :
                (devices[i].ip = ev'.ipaddr /\ devices[i].name # ev'.name) =>
                    /\ devices'[i].name = devices[i].name
                    /\ devices'[i].name # ev'.name
                    /\ devices'[i] = devices[i] ]_vars

\* a registered bulb was announced again under another name
C4_Witness ==
    /\ ev.op = "on_device"
    /\ added = << >>
    /\ \E i \in 1..Len(devices) :
          /\ devices[i].ip = ev.ipaddr
          /\ devices[i].name = "lamp"
          /\ ev.name = "desk"

\* C5: an on_power or on_color event for an address with no registered bulb
\* is dropped: registry and bulbs unchanged, no callback, no refresh signal,
\* in every registry state including the empty one.
C5_UnknownAddressDropped ==
    [][ (ev'.op \in {"on_power", "on_color"} /\ ~Registered(ev'.ipaddr)) =>
            /\ devices' = devices
            /\ addCount' = addCount
            /\ added' = << >>
            /\ signals' = << >> ]_vars

\* a colour event arrived for the address that is not registered, while the
\* other address is registered with another colour
C5_Witness ==
    /\ ev.op = "on_color"
    /\ Len(devices) = 1
    /\ devices[1].ip # ev.ipaddr
    /\ devices[1].hue # ev.hue
    /\ signals = << >>

\* C6: is_on of a registered bulb is true exactly when the last power value
\* reported for its address (by the on_device that created it or a later
\* on_power) is nonzero; an on_power for a registered address issues one
\* refresh signal for that bulb and touches no other bulb.
C6_PowerMirrorsLastReport ==
    /\ [](\A i \in 1..Len(devices) :
             /\ reported[devices[i].ip] # NoReport
             /\ is_on(devices[i]) <=> (reported[devices[i].ip] # 0))
    /\ [][ (ev'.op = "on_power" /\ Registered(ev'.ipaddr)) =>
                /\ signals' = <<ev'.ipaddr>>
                /\ Len(devices') = Len(devices)
                /\ \A j \in 1..Len(devices) :
                       devices[j].ip # ev'.ipaddr => devices'[j] = devices[j] ]_vars

\* a bulb created off was reported on with a power value other than 65535,
\* while the other bulb is off
C6_Witness ==
    /\ ev.op = "on_power"
    /\ ev.power = 1
    /\ Len(devices) = 2
    /\ signals = <<ev.ipaddr>>
    /\ \E i, j \in 1..2 :
          /\ devices[i].ip = ev.ipaddr
          /\ is_on(devices[i])
          /\ j # i
          /\ ~is_on(devices[j])

\* C7: turn_on and turn_off change no stored state, whatever the options;
\* the power flag of a bulb changes only in an on_power step.
C7_CommandsKeepState ==
    [][ /\ ev'.op \in {"turn_on", "turn_off"} =>
              /\ devices' = devices
              /\ reported' = reported
        /\ \A i \in 1..Len(devices) :
              (i <= Len(devices') /\ devices'[i].power # devices[i].power) =>
                  ev'.op = "on_power" ]_vars

\* turn_off with a transition was called on a bulb that is still stored as on
C7_Witness ==
    /\ ev.op = "turn_off"
    /\ ATTR_TRANSITION \in DOMAIN ev.kwargs
    /\ is_on(devices[ev.bulb])
    /\ cmds = << <<"set_power", ev.ipaddr, 0, ev.kwargs[ATTR_TRANSITION] * 1000>> >>

\* C8: turn_on emits set_power(address, 65535, fade) iff the last reported
\* power of the bulb is off, then exactly one set_color, both with the same
\* fade (transition * 1000, or 0); a turn_on that follows a turn_on which
\* emitted the power command emits it again.
C8_PowerThenColor ==
    [][ ev'.op = "turn_on" =>
            LET b == devices[ev'.bulb]
                fade == IF ATTR_TRANSITION \in DOMAIN ev'.kwargs
                        THEN ev'.kwargs[ATTR_TRANSITION] * 1000 ELSE 0
            IN  /\ Len(cmds') = IF reported[b.ip] = 0 THEN 2 ELSE 1
                /\ reported[b.ip] = 0 => cmds'[1] = <<"set_power", b.ip, 65535, fade>>
                /\ Len(ColorCmd) = 7
                /\ ColorCmd[1] = "set_color"
                /\ ColorCmd[2] = b.ip
                /\ ColorCmd[7] = fade
                /\ (ev.op = "turn_on" /\ ev.bulb = ev'.bulb /\ Len(cmds) = 2) =>
                       /\ Len(cmds') = 2
                       /\ cmds'[1][1] = "set_power" ]_vars

\* turn_on with a transition was called on a bulb last reported off
C8_Witness ==
    /\ ev.op = "turn_on"
    /\ ATTR_TRANSITION \in DOMAIN ev.kwargs
    /\ ev.kwargs[ATTR_TRANSITION] = 2
    /\ reported[ev.ipaddr] = 0
    /\ Len(cmds) = 2
    /\ cmds[1] = <<"set_power", ev.ipaddr, 65535, 2000>>
    /\ cmds[2][7] = 2000

\* C9: turn_on with only a brightness option b emits set_color with the
\* stored hue, saturation and kelvin and brightness b * 256; every field for
\* which no option is given is sent with its stored value.
C9_MissingOptionsUseStored ==
    [][ ev'.op = "turn_on" =>
            LET b == devices[ev'.bulb]
                kw == ev'.kwargs
            IN  /\ ATTR_RGB_COLOR \notin DOMAIN kw =>
                       ColorCmd[3] = b.hue /\ ColorCmd[4] = b.sat
                /\ ATTR_BRIGHTNESS \notin DOMAIN kw => ColorCmd[5] = b.bri
                /\ ATTR_COLOR_TEMP \notin DOMAIN kw => ColorCmd[6] = b.kel
                /\ DOMAIN kw = {ATTR_BRIGHTNESS} =>
                       ColorCmd = <<"set_color", b.ip, b.hue, b.sat,
                                    kw[ATTR_BRIGHTNESS] * 256, b.kel, 0>> ]_vars

\* turn_on(brightness=128) was called on a bulb with another stored brightness
C9_Witness ==
    /\ ev.op = "turn_on"
    /\ DOMAIN ev.kwargs = {ATTR_BRIGHTNESS}
    /\ ev.kwargs[ATTR_BRIGHTNESS] = 128
    /\ devices[ev.bulb].bri = 65535
    /\ devices[ev.bulb].hue = 0
    /\ cmds[Len(cmds)] = <<"set_color", ev.ipaddr, 0, 0, 32768, 6500, 0>>

\* C10: turn_on with an RGB option sends the hue and saturation of the
\* converted colour; the brightness sent is the brightness option times 256
\* when one is given and the stored raw brightness otherwise, never the value
\* channel of the requested colour.
C10_RgbNeverSetsBrightness ==
    [][ (ev'.op = "turn_on" /\ ATTR_RGB_COLOR \in DOMAIN ev'.kwargs) =>
            LET b == devices[ev'.bulb]
                kw == ev'.kwargs
                hsv == convert_rgb_to_hsv(kw[ATTR_RGB_COLOR])
            IN  /\ ColorCmd[3] = hsv[1]
                /\ ColorCmd[4] = hsv[2]
                /\ ColorCmd[5] = IF ATTR_BRIGHTNESS \in DOMAIN kw
                                 THEN kw[ATTR_BRIGHTNESS] * 256
                                 ELSE b.bri ]_vars

\* turn_on(rgb_color=(10, 200, 100)) was called without a brightness option
\* on a bulb whose stored brightness is not the colour's value channel
C10_Witness ==
    /\ ev.op = "turn_on"
    /\ ATTR_RGB_COLOR \in DOMAIN ev.kwargs
    /\ ATTR_BRIGHTNESS \notin DOMAIN ev.kwargs
    /\ ev.kwargs[ATTR_RGB_COLOR] = <<10, 200, 100>>
    /\ devices[ev.bulb].bri = 32768
    /\ convert_rgb_to_hsv(ev.kwargs[ATTR_RGB_COLOR])[3] = 51400
    /\ cmds[Len(cmds)][3] = 27018
    /\ cmds[Len(cmds)][4] = 62258
    /\ cmds[Len(cmds)][5] = 32768

\* the stored colour fields of a bulb
ColorFields(bulb) == <<bulb.hue, bulb.sat, bulb.bri, bulb.kel, bulb.rgb>>

\* C11: the rgb_color of every registered bulb is the truncated
\* 255 * hsv_to_rgb of its stored hue, saturation and brightness; an on_color
\* for a registered address replaces hue, saturation, brightness and kelvin
\* together with the event's values, recomputes RGB in the same step and
\* issues one refresh signal; no other step changes a colour field of a
\* registered bulb.
C11_RgbFollowsHsv ==
    /\ [](\A i \in 1..Len(devices) :
             devices[i].rgb = HsvToRgb(devices[i].hue, devices[i].sat, devices[i].bri))
    /\ [][ /\ (ev'.op = "on_color" /\ Registered(ev'.ipaddr)) =>
                /\ signals' = <<ev'.ipaddr>>
                /\ Len(devices') = Len(devices)
                /\ \A i \in 1..Len(devices) :
                      devices[i].ip = ev'.ipaddr =>
                          ColorFields(devices'[i]) =
                              <<ev'.hue, ev'.sat, ev'.bri, ev'.kel,
                                HsvToRgb(ev'.hue, ev'.sat, ev'.bri)>>
           /\ \A i \in 1..Len(devices) :
                 (i <= Len(devices') /\ ColorFields(devices'[i]) # ColorFields(devices[i])) =>
                     ev'.op = "on_color" /\ ev'.ipaddr = devices[i].ip ]_vars

\* a colour event changed hue, saturation, brightness, kelvin and RGB of a
\* registered bulb at once
C11_Witness ==
    /\ ev.op = "on_color"
    /\ signals = <<ev.ipaddr>>
    /\ \E i \in 1..Len(devices) :
          /\ devices[i].ip = ev.ipaddr
          /\ ColorFields(devices[i]) = <<21845, 65535, 32768, 2500, <<0, 127, 0>> >>
    /\ \E j \in 1..Len(devices) :
          ColorFields(devices[j]) = <<0, 0, 65535, 6500, <<255, 255, 255>> >>

\* C15: turn_off emits exactly one protocol command, set_power(address, 0,
\* fade) with fade the transition option times 1000 (0 without one), and no
\* set_color, whether the bulb was last reported on or off.
C15_TurnOffOneCommand ==
    [][ ev'.op = "turn_off" =>
            LET b == devices[ev'.bulb]
                fade == IF ATTR_TRANSITION \in DOMAIN ev'.kwargs
                        THEN ev'.kwargs[ATTR_TRANSITION] * 1000 ELSE 0
            IN  /\ Len(cmds') = 1
                /\ cmds'[1] = <<"set_power", b.ip, 0, fade>>
                /\ \A k \in 1..Len(cmds') : cmds'[k][1] # "set_color" ]_vars

\* turn_off(transition=1) was called on a bulb last reported off
C15_Witness ==
    /\ ev.op = "turn_off"
    /\ reported[ev.ipaddr] = 0
    /\ ~is_on(devices[ev.bulb])
    /\ cmds = << <<"set_power", ev.ipaddr, 0, 1000>> >>

\* C16: the registry only grows: a registered bulb stays registered, at its
\* place and with its ipaddr, whatever follows; the registry changes only by
\* an on_device for an address not yet registered, which appends one bulb.
C16_RegistryOnlyGrows ==
    [][ /\ Len(devices') >= Len(devices)
        /\ \A i \in 1..Len(devices) :
              i <= Len(devices') /\ devices'[i].ip = devices[i].ip
        /\ Len(devices') # Len(devices) =>
              /\ ev'.op = "on_device"
              /\ ~Registered(ev'.ipaddr)
              /\ Len(devices') = Len(devices) + 1
              /\ devices'[Len(devices')].ip = ev'.ipaddr
        /\ (ev'.op = "on_device" /\ ~Registered(ev'.ipaddr)) =>
              Len(devices') = Len(devices) + 1 ]_vars

\* both bulbs are still registered after one of them was reported off
C16_Witness ==
    /\ ev.op = "on_power"
    /\ ev.power = 0
    /\ Len(devices) = 2
    /\ devices[1].ip = ev.ipaddr
    /\ ~is_on(devices[1])

\* ---------------------------------------------------------------------
\* Property reads over the whole native range
\* ---------------------------------------------------------------------
\* the state after setup_platform and one on_device event
Discovered(ipaddr, name, power, hue, sat, bri, kel) ==
    LET new == LIFXLight(ipaddr, name, power, hue, sat, bri, kel)
    IN  /\ devices = <<new>>
        /\ ev = [op |-> "on_device", ipaddr |-> ipaddr, name |-> name,
                 power |-> power, hue |-> hue, sat |-> sat, bri |-> bri, kel |-> kel]
        /\ added = << <<new>> >>
        /\ addCount = [a \in Addrs |-> IF a = ipaddr THEN 1 ELSE 0]
        /\ signals = << >>
        /\ cmds = << >>
        /\ probes = << >>
        /\ discovered = {ipaddr}
        /\ reported = [a \in Addrs |-> IF a = ipaddr THEN power ELSE NoReport]
        /\ calls = [t \in Contexts |-> Idle]
        /\ clock = 0

\* one bulb, discovered with any raw brightness or with any kelvin
InitRead ==
    \/ \E bri \in 0..SHORT_MAX :
          Discovered("10.0.0.1", "lamp", 65535, 0, 0, bri, TEMP_MIN)
    \/ \E kel \in TEMP_MIN..TEMP_MAX :
          Discovered("10.0.0.1", "lamp", 65535, 0, 0, SHORT_MAX, kel)

NextRead ==
    \/ \E i \in 1..Len(devices) : ReadBrightness(i) /\ UNCHANGED env
    \/ \E i \in 1..Len(devices) : ReadColorTemp(i) /\ UNCHANGED env

SpecRead == InitRead /\ [][NextRead]_vars

\* C12: for every raw brightness in 0..65535 the brightness property is
\* floor(raw / 256); it is 0 at 0, 255 at 65535, within 0..255, and does not
\* decrease when the raw brightness grows.
C12_BrightnessIsFloor ==
    ev.op = "brightness" =>
        LET raw == devices[ev.bulb].bri
        IN  /\ 256 * ev.value <= raw
            /\ raw < 256 * (ev.value + 1)
            /\ ev.value \in 0..255
            /\ raw = 0 => ev.value = 0
            /\ raw = 65535 => ev.value = 255
            /\ raw < 65535 =>
                   ev.value <= brightness_prop([devices[ev.bulb] EXCEPT !.bri = raw + 1])

\* the brightness of a bulb at raw 65535 was read as 255
C12_Witness ==
    /\ ev.op = "brightness"
    /\ devices[ev.bulb].bri = 65535
    /\ ev.value = 255

\* C13: for every stored kelvin in 2500..9000 the color_temp property is
\* 154 + 346 * (kelvin - 2500) / 6500 truncated; it is 154 at 2500, 500 at
\* 9000, within 154..500, and does not decrease when kelvin grows.
C13_ColorTempIsRescale ==
    (ev.op = "color_temp" /\ devices[ev.bulb].kel \in 2500..9000) =>
        LET kel == devices[ev.bulb].kel
        IN  /\ 6500 * (ev.value - 154) <= 346 * (kel - 2500)
            /\ 346 * (kel - 2500) < 6500 * (ev.value - 154 + 1)
            /\ ev.value \in 154..500
            /\ kel = 2500 => ev.value = 154
            /\ kel = 9000 => ev.value = 500
            /\ kel < 9000 =>
                   ev.value <= color_temp_prop([devices[ev.bulb] EXCEPT !.kel = kel + 1])

\* the color_temp of a bulb at 6500 K was read as 366
C13_Witness ==
    /\ ev.op = "color_temp"
    /\ devices[ev.bulb].kel = 6500
    /\ ev.value = 366

\* ---------------------------------------------------------------------
\* RGB -> native HSV -> RGB
\* ---------------------------------------------------------------------
\* the RGB triples converted
RgbGrid == RgbChannels \X RgbChannels \X RgbChannels

\* one discovered bulb, and convert_rgb_to_hsv called with a triple of the grid
InitRgbTrip ==
    \E rgb \in RgbGrid :
       \E hsv \in convert_rgb_to_hsv_float(rgb) :
          LET new == LIFXLight("10.0.0.1", "lamp", 65535, 0, 0, 65535, 6500)
          IN  /\ devices = <<new>>
              /\ ev = [op |-> "convert_rgb_to_hsv", rgb |-> rgb, value |-> hsv]
              /\ added = << >>
              /\ addCount = [a \in Addrs |-> IF a = "10.0.0.1" THEN 1 ELSE 0]
              /\ signals = << >>
              /\ cmds = << >>
              /\ probes = << >>
              /\ discovered = {"10.0.0.1"}
              /\ reported = [a \in Addrs |-> IF a = "10.0.0.1" THEN 65535 ELSE NoReport]
              /\ calls = [t \in Contexts |-> Idle]
              /\ clock = 0

NextRgbTrip == \E i \in 1..Len(devices) : FeedSetColor(i) /\ UNCHANGED env

SpecRgbTrip == InitRgbTrip /\ [][NextRgbTrip]_vars

\* C14: converting an RGB triple with convert_rgb_to_hsv and feeding hue,
\* saturation and brightness to set_color yields an rgb_color whose every
\* channel differs from the original by at most 1.
C14_RgbRoundTrip ==
    ev.op = "set_color" =>
        \A c \in 1..3 :
            /\ devices[ev.bulb].rgb[c] - ev.rgb[c] <= 1
            /\ ev.rgb[c] - devices[ev.bulb].rgb[c] <= 1

\* (0, 1, 1) came back as (0, 1, 0), through hue 32767
C14_Witness ==
    /\ ev.op = "set_color"
    /\ ev.rgb = <<0, 1, 1>>
    /\ ev.hsv = <<32767, 65535, 257>>
    /\ devices[ev.bulb].rgb = <<0, 1, 0>>

\* ---------------------------------------------------------------------
\* on_device delivered from two listener contexts without serialisation
\* ---------------------------------------------------------------------
\* on_device runs find_bulb and, later, the creating branch; nothing in the
\* class holds a lock between the two, so each half is a step of its own and
\* the local variable bulb lives in calls[t] in between.  The fields absent
\* and seen are history: what the registry was when the lookup ran.
InterleavedPowers == {65535}

InterleavedColors == {<<0, 0, 65535, 6500>>}

\* first half of on_device: bulb = self.find_bulb(ipaddr)
OnDeviceLookup(t, ipaddr, name, power, hue, sat, bri, kel) ==
    /\ calls[t].pc = "idle"
    /\ calls' = [calls EXCEPT ![t] =
                    [pc |-> "found", ipaddr |-> ipaddr, name |-> name,
                     power |-> power, hue |-> hue, sat |-> sat, bri |-> bri,
                     kel |-> kel, bulb |-> find_bulb(devices, ipaddr),
                     absent |-> \A i \in 1..Len(devices) : devices[i].ip # ipaddr,
                     seen |-> Len(devices)]]
    /\ ev' = [op |-> "find_bulb", ctx |-> t, ipaddr |-> ipaddr]
    /\ added' = << >>
    /\ signals' = << >>
    /\ cmds' = << >>
    /\ probes' = << >>
    /\ UNCHANGED <<devices, addCount, discovered, reported, clock>>

\* second half of on_device that appends whatever the lookup returned
OnDeviceAppend_Always(t) ==
    LET c == calls[t]
        new == LIFXLight(c.ipaddr, c.name, c.power, c.hue, c.sat, c.bri, c.kel)
    IN  /\ c.pc = "found"
        /\ calls' = [calls EXCEPT ![t] = Idle]
        /\ ev' = [op |-> "on_device", ctx |-> t, ipaddr |-> c.ipaddr, name |-> c.name,
                  power |-> c.power, hue |-> c.hue, sat |-> c.sat, bri |-> c.bri,
                  kel |-> c.kel]
        /\ discovered' = discovered \cup {c.ipaddr}
        /\ devices' = Append(devices, new)
        /\ added' = << <<new>> >>
        /\ addCount' = [addCount EXCEPT ![c.ipaddr] = @ + 1]
        /\ reported' = [reported EXCEPT ![c.ipaddr] = c.power]
        /\ signals' = << >>
        /\ cmds' = << >>
        /\ probes' = << >>
        /\ UNCHANGED clock

\* second half of on_device: if bulb is None, create, append and announce
OnDeviceAppend(t) ==
    LET c == calls[t]
        new == LIFXLight(c.ipaddr, c.name, c.power, c.hue, c.sat, c.bri, c.kel)
    IN  /\ c.pc = "found"
        /\ calls' = [calls EXCEPT ![t] = Idle]
        /\ ev' = [op |-> "on_device", ctx |-> t, ipaddr |-> c.ipaddr, name |-> c.name,
                  power |-> c.power, hue |-> c.hue, sat |-> c.sat, bri |-> c.bri,
                  kel |-> c.kel]
        /\ discovered' = discovered \cup {c.ipaddr}
        /\ IF c.bulb = 0
           THEN /\ devices' = Append(devices, new)
                /\ added' = << <<new>> >>
                /\ addCount' = [addCount EXCEPT ![c.ipaddr] = @ + 1]
                /\ reported' = [reported EXCEPT ![c.ipaddr] = c.power]
           ELSE UNCHANGED <<devices, addCount, reported>> /\ added' = << >>
        /\ signals' = << >>
        /\ cmds' = << >>
        /\ probes' = << >>
        /\ UNCHANGED clock

NextInterleaved ==
    \/ \E t \in Contexts, ipaddr \in Addrs, name \in Names,
          power \in InterleavedPowers, c \in InterleavedColors :
          OnDeviceLookup(t, ipaddr, name, power, c[1], c[2], c[3], c[4])
    \/ \E t \in Contexts : OnDeviceAppend(t)

SpecInterleaved == Init /\ [][NextInterleaved]_vars

\* number of bulbs in the registry with the address
BulbsAt(ipaddr) == Cardinality({i \in 1..Len(devices) : devices[i].ip = ipaddr})

\* C17: one bulb per address rests on serial delivery.  With the lookup and
\* the append of on_device as separate steps, a second bulb for an address
\* is appended exactly by a callback whose lookup ran while the address was
\* absent and whose append ran after another callback had registered it;
\* every append is announced, so an address can end with two bulbs and two
\* add-devices notifications, and never with more bulbs than callbacks in
\* flight.
C17_DuplicateNeedsInterleaving ==
    /\ [](\A a \in Addrs : /\ BulbsAt(a) = addCount[a]
                           /\ BulbsAt(a) <= Cardinality(Contexts))
    /\ [][ ev'.op = "on_device" =>
             LET c == calls[ev'.ctx]
             IN  /\ Len(devices') > Len(devices) <=> c.absent
                 /\ Len(devices') > Len(devices) => Len(added') = 1
                 /\ (Len(devices') > Len(devices) /\ Registered(ev'.ipaddr)) =>
                       /\ c.seen < Len(devices)
                       /\ \E i \in (c.seen + 1)..Len(devices) :
                             devices[i].ip = ev'.ipaddr ]_vars

\* both callbacks saw the address absent and both appended
C17_Witness ==
    /\ ev.op = "on_device"
    /\ Len(devices) = 2
    /\ devices[1].ip = ev.ipaddr
    /\ devices[2].ip = ev.ipaddr
    /\ addCount[ev.ipaddr] = 2
    /\ Len(added) = 1
    /\ \A t \in Contexts : calls[t].pc = "idle"

\* ---------------------------------------------------------------------
\* Option -> command -> echoed report -> property
\* ---------------------------------------------------------------------
\* the protocol client reports back the colour it was last told to set
EchoColor ==
    /\ ev.op = "turn_on"
    /\ cmds # << >>
    /\ LET c == cmds[Len(cmds)]
       IN  /\ c[1] = "set_color"
           /\ OnColor(c[2], c[3], c[4], c[5], c[6])

\* turn_on(brightness=b) for every brightness option of the host
BrightnessKwargs == {(ATTR_BRIGHTNESS :> b) : b \in 0..BYTE_MAX}

\* one bulb at native full brightness, stored as on or as off
InitTrip ==
    \E power \in {0, 65535} :
        Discovered("10.0.0.1", "lamp", power, 0, 0, SHORT_MAX, TEMP_MIN)

\* the host turns the bulb on again once the last command was answered;
\* turn_on stores nothing, so a command issued over an unanswered one
\* leaves the same state as that command alone
TripTurnOn(kwargs) ==
    /\ ev.op # "turn_on"
    /\ TurnOn(1, kwargs)

NextBrightnessTrip ==
    \/ \E kwargs \in BrightnessKwargs : TripTurnOn(kwargs) /\ UNCHANGED env
    \/ EchoColor /\ UNCHANGED env
    \/ ReadBrightness(1) /\ UNCHANGED env

SpecBrightnessTrip == InitTrip /\ [][NextBrightnessTrip]_vars

\* C18: turn_on(brightness=b), b in 0..255, commands native brightness
\* b * 256, at most 65280 and so never 65535; when that value comes back
\* through on_color the brightness property reads b.
C18_BrightnessRoundTrip ==
    [][ /\ ev'.op = "turn_on" =>
              LET b == ev'.kwargs[ATTR_BRIGHTNESS]
              IN  /\ ColorCmd[1] = "set_color"
                  /\ ColorCmd[5] = b * 256
                  /\ ColorCmd[5] \in 0..65280
                  /\ ColorCmd[5] # 65535
        /\ (ev.op = "turn_on" /\ ev'.op = "on_color") =>
              LET b == ev.kwargs[ATTR_BRIGHTNESS]
              IN  /\ ev'.bri = b * 256
                  /\ devices'[ev.bulb].bri = b * 256
                  /\ brightness_prop(devices'[ev.bulb]) = b
        /\ (ev.op = "on_color" /\ ev'.op = "brightness") =>
              ev'.value * 256 = ev.bri ]_vars

\* brightness 255 was commanded as 65280, echoed, and read back as 255
C18_Witness ==
    /\ ev.op = "brightness"
    /\ ev.value = 255
    /\ devices[1].bri = 65280
    /\ signals = << >>

\* turn_on(color_temp=t) for every color temperature option of the host
ColorTempKwargs == {(ATTR_COLOR_TEMP :> t) : t \in TEMP_MIN_HASS..TEMP_MAX_HASS}

NextColorTempTrip ==
    \/ \E kwargs \in ColorTempKwargs : TripTurnOn(kwargs) /\ UNCHANGED env
    \/ EchoColor /\ UNCHANGED env
    \/ ReadColorTemp(1) /\ UNCHANGED env

SpecColorTempTrip == InitTrip /\ [][NextColorTempTrip]_vars

\* C19: turn_on(color_temp=t), t in 154..500, commands
\* kelvin = trunc(2500 + 6500 * (t - 154) / 346), which lies in 2500..9000;
\* when that kelvin comes back through on_color the color_temp property
\* reads t or t - 1.
C19_ColorTempRoundTrip ==
    [][ /\ ev'.op = "turn_on" =>
              LET t == ev'.kwargs[ATTR_COLOR_TEMP]
              IN  /\ ColorCmd[1] = "set_color"
                  /\ ColorCmd[6] = 2500 + ((6500 * (t - 154)) \div 346)
                  /\ ColorCmd[6] \in 2500..9000
        /\ (ev.op = "turn_on" /\ ev'.op = "on_color") =>
              LET t == ev.kwargs[ATTR_COLOR_TEMP]
              IN  /\ ev'.kel = 2500 + ((6500 * (t - 154)) \div 346)
                  /\ devices'[ev.bulb].kel = ev'.kel
                  /\ color_temp_prop(devices'[ev.bulb]) \in {t, t - 1}
        /\ (ev.op = "on_color" /\ ev'.op = "color_temp") =>
              ev'.value \in 154..500 ]_vars

\* color_temp 155 was commanded as 2518 kelvin, echoed, and read back as 154
C19_Witness ==
    /\ ev.op = "color_temp"
    /\ ev.value = 154
    /\ devices[1].kel = 2518

\* ---------------------------------------------------------------------
\* The poll registered by setup_platform
\* ---------------------------------------------------------------------
\* setup_platform registers poll with track_time_change(second = 10) and
\* then probes once.  The scheduler itself belongs to the host; it is
\* taken here as the specification describes it: a fixed cadence of one
\* poll every 10 seconds, counted from setup.
PollSecond == 10

MaxClock == 30

\* a second passes and the scheduler has nothing to run
Tick ==
    /\ clock < MaxClock
    /\ (clock + 1) % PollSecond # 0
    /\ clock' = clock + 1
    /\ ev' = [op |-> "tick"]
    /\ added' = << >>
    /\ signals' = << >>
    /\ cmds' = << >>
    /\ probes' = << >>
    /\ UNCHANGED <<devices, addCount, discovered, reported, calls>>

\* a second passes and the scheduler runs the registered poll
ScheduledPoll ==
    /\ clock < MaxClock
    /\ (clock + 1) % PollSecond = 0
    /\ clock' = clock + 1
    /\ Poll
    /\ UNCHANGED calls

NextSchedule ==
    \/ Tick
    \/ ScheduledPoll
    \/ \E ipaddr \in Addrs, name \in Names, power \in Powers, c \in Colors :
          OnDevice(ipaddr, name, power, c[1], c[2], c[3], c[4]) /\ UNCHANGED env
    \/ \E ipaddr \in Addrs, power \in Powers :
          OnPower(ipaddr, power) /\ UNCHANGED env

SpecSchedule == Init /\ [][NextSchedule]_vars

====
